---------------------------- MODULE Spec2Model ----------------------------
(***************************************************************************)
(* A model of pkg/exectest/helm.go: the Helm test double that records the *)
(* invocations it receives and resolves canned responses.                 *)
(*                                                                         *)
(* Go strings are TLA+ strings; a []string is a sequence of strings; a    *)
(* map is a record [nil, m] holding the nil-ness of the map and its       *)
(* key/value function; an error is a record [nil, msg].  Goroutines that   *)
(* call the double are the processes Procs.  A slice append                *)
(*     helm.X = append(helm.X, r)                                          *)
(* is a read of helm.X followed by a write of helm.X, two steps that      *)
(* other goroutines may interleave with unless a mutex is held.            *)
(***************************************************************************)
EXTENDS Naturals, Sequences, FiniteSets, Bags, TLC

VARIABLES
    Charts, Releases, Deleted, Linted, Templated, Diffed,  \* observation lists
    Lists, Diffs,                                          \* expectation maps
    FailOnUnexpectedDiff, FailOnUnexpectedList,            \* strict-mode flags
    UpdateDepsCallbacks,                                   \* chart -> callback
    DiffMutex, ChartsMutex, ReleasesMutex,                 \* *sync.Mutex or nil
    Version, Helm3,                                        \* *semver.Version, bool
    locked,     \* state of every sync.Mutex object: 0 (unlocked) or the holder
    pc,         \* where each goroutine is inside its current call
    cur,        \* the call each goroutine is making / has last made
    tgt,        \* the list the goroutine's current append writes to
    tmp,        \* the slice value read by the goroutine's pending append
    mu,         \* the mutex the goroutine's current append locks, or nil
    ret,        \* what the goroutine's last returned call returned
    left,       \* the number of calls the test has yet to start
    wrote,      \* the lists the goroutine's current / last call has appended to
    invoked     \* the callbacks invoked so far: <<registered chart, argument>>

lists  == <<Charts, Releases, Deleted, Linted, Templated, Diffed>>
config == <<Lists, Diffs, FailOnUnexpectedDiff, FailOnUnexpectedList,
            UpdateDepsCallbacks, DiffMutex, ChartsMutex, ReleasesMutex,
            Version, Helm3>>
procs  == <<pc, cur, tgt, tmp, mu, ret, left, wrote>>
vars   == <<lists, config, locked, procs, invoked>>

---------------------------------------------------------------------------
(* Bounds and input sets *)

NProcs == 3                 \* goroutines that may call the double
MaxCalls == 2               \* calls the test starts in one run

Procs == 1..NProcs
Callers == {1, 2}           \* the two goroutines of the mixed workload

NIL == "nil"                                \* a nil *sync.Mutex
Mutexes == {"m1", "m2", "m3"}               \* the sync.Mutex objects of a test

Sentinel == "error"

---------------------------------------------------------------------------
(* Values *)

NilError == [nil |-> TRUE, msg |-> ""]
\* errors.New(msg) / fmt.Errorf: a non-nil error carrying its message
NewError(msg) == [nil |-> FALSE, msg |-> msg]

NilMap == [nil |-> TRUE, m |-> <<>>]
MakeMap(f) == [nil |-> FALSE, m |-> f]

Release(name, flags) == [Name |-> name, Flags |-> flags]
ListKey(filter, flags) == [Filter |-> filter, Flags |-> flags]
DiffKey(name, chart, flags) == [Name |-> name, Chart |-> chart, Flags |-> flags]

\* strings.Contains(s, sub)
Contains(s, sub) ==
    \E i \in 1..(Len(s) + 1) :
        /\ i + Len(sub) - 1 <= Len(s)
        /\ SubSeq(s, i, i + Len(sub) - 1) = sub

\* strings.Join putting a space between the elements whatever sep is
RECURSIVE JoinSpaced(_, _)
JoinSpaced(elems, sep) ==
    IF elems = <<>> THEN ""
    ELSE IF Len(elems) = 1 THEN elems[1]
    ELSE elems[1] \o " " \o JoinSpaced(Tail(elems), sep)

\* strings.Join(elems, sep)
RECURSIVE Join(_, _)
Join(elems, sep) ==
    IF elems = <<>> THEN ""
    ELSE IF Len(elems) = 1 THEN elems[1]
    ELSE elems[1] \o sep \o Join(Tail(elems), sep)

\* ListKey.String()
ListKeyString(k) == "listkey(filter=" \o k.Filter \o ",flags=" \o k.Flags \o ")"

\* fmt's %v of a DiffKey, a struct of three strings without a String method
DiffKeyString(k) == "{" \o k.Name \o " " \o k.Chart \o " " \o k.Flags \o "}"

\* the orders in which a range over a map may visit its keys
KeyOrders(S) ==
    {s \in [1..Cardinality(S) -> S] : \A i, j \in DOMAIN s : i # j => s[i] # s[j]}

RECURSIVE MapSeq(_, _)
MapSeq(s, i) ==
    IF i > Len(s) THEN <<>> ELSE <<ListKeyString(s[i])>> \o MapSeq(s, i + 1)

---------------------------------------------------------------------------
(* Versions: the values and functions of semver that helm.go uses *)

\* a nil *semver.Version, and a version major.minor.patch[-pre]; the build
\* metadata of a version takes no part in a comparison and is not kept
NilVersion == [nil |-> TRUE, major |-> 0, minor |-> 0, patch |-> 0, pre |-> ""]
MakeVersion(major, minor, patch, pre) ==
    [nil |-> FALSE, major |-> major, minor |-> minor, patch |-> patch, pre |-> pre]

\* the characters of a pre-release or metadata identifier, in byte order
Ascii == "-0123456789ABCDEFGHIJKLMNOPQRSTUVWXYZabcdefghijklmnopqrstuvwxyz"
Digits == "0123456789"

CharAt(s, i) == SubSeq(s, i, i)
IsIn(c, chars) == \E i \in 1..Len(chars) : CharAt(chars, i) = c
\* the position of character c in chars
Code(c, chars) == CHOOSE i \in 1..Len(chars) : CharAt(chars, i) = c

\* s is a non-empty run of decimal digits: strconv.ParseUint(s, 10, 64) succeeds
IsNumber(s) == Len(s) > 0 /\ \A i \in 1..Len(s) : IsIn(CharAt(s, i), Digits)

\* strconv.ParseUint(s, 10, 64) of a run of digits
RECURSIVE ParseUint(_)
ParseUint(s) ==
    IF s = "" THEN 0
    ELSE 10 * ParseUint(SubSeq(s, 1, Len(s) - 1)) + (Code(CharAt(s, Len(s)), Digits) - 1)

\* strings.Index(s, c) + 1 for a one-character c: 0 when c is not in s
Index(s, c) ==
    IF \E i \in 1..Len(s) : CharAt(s, i) = c
    THEN CHOOSE i \in 1..Len(s) :
            CharAt(s, i) = c /\ \A j \in 1..(i - 1) : CharAt(s, j) # c
    ELSE 0

\* strings.Split(s, c) for a one-character c
RECURSIVE Split(_, _)
Split(s, c) ==
    LET i == Index(s, c)
    IN  IF i = 0 THEN <<s>>
        ELSE <<SubSeq(s, 1, i - 1)>> \o Split(SubSeq(s, i + 1, Len(s)), c)

\* s matches [0-9A-Za-z\-]+(\.[0-9A-Za-z\-]+)*
IsIdentifiers(s) ==
    LET parts == Split(s, ".")
    IN  \A k \in 1..Len(parts) :
            /\ Len(parts[k]) > 0
            /\ \A i \in 1..Len(parts[k]) : IsIn(CharAt(parts[k], i), Ascii)

\* semver.NewVersion(v): v?MAJOR[.MINOR[.PATCH]][-PRE][+META], a missing
\* minor or patch being 0; ok is FALSE when v does not have that form
ParseVersion(v) ==
    LET s == IF Len(v) > 0 /\ CharAt(v, 1) = "v" THEN SubSeq(v, 2, Len(v)) ELSE v
        plus == Index(s, "+")
        body == IF plus = 0 THEN s ELSE SubSeq(s, 1, plus - 1)
        meta == IF plus = 0 THEN "" ELSE SubSeq(s, plus + 1, Len(s))
        dash == Index(body, "-")
        core == IF dash = 0 THEN body ELSE SubSeq(body, 1, dash - 1)
        pre == IF dash = 0 THEN "" ELSE SubSeq(body, dash + 1, Len(body))
        nums == Split(core, ".")
        ok == /\ Len(nums) <= 3
              /\ \A k \in 1..Len(nums) : IsNumber(nums[k])
              /\ dash = 0 \/ IsIdentifiers(pre)
              /\ plus = 0 \/ IsIdentifiers(meta)
        num(k) == IF k <= Len(nums) THEN ParseUint(nums[k]) ELSE 0
    IN  IF ok THEN [ok |-> TRUE, v |-> MakeVersion(num(1), num(2), num(3), pre)]
        ELSE [ok |-> FALSE, v |-> NilVersion]

\* s > o for strings, byte by byte
RECURSIVE StringGreater(_, _)
StringGreater(s, o) ==
    IF s = "" THEN FALSE
    ELSE IF o = "" THEN TRUE
    ELSE IF CharAt(s, 1) # CharAt(o, 1)
    THEN Code(CharAt(s, 1), Ascii) > Code(CharAt(o, 1), Ascii)
    ELSE StringGreater(Tail(s), Tail(o))

\* semver's comparePrePart: -1, 0 or 1 as 0, 1 or 2
comparePrePart(s, o) ==
    IF s = o THEN 1
    ELSE IF s = "" THEN 0
    ELSE IF o = "" THEN 2
    ELSE IF ~IsNumber(o) /\ ~IsNumber(s) THEN (IF StringGreater(s, o) THEN 2 ELSE 0)
    ELSE IF ~IsNumber(o) THEN 0
    ELSE IF ~IsNumber(s) THEN 2
    ELSE IF ParseUint(s) > ParseUint(o) THEN 2 ELSE 0

\* semver's comparePrerelease over the identifiers from position i on
RECURSIVE comparePrerelease(_, _, _)
comparePrerelease(sparts, oparts, i) ==
    IF i > Len(sparts) /\ i > Len(oparts) THEN 1
    ELSE LET stemp == IF i <= Len(sparts) THEN sparts[i] ELSE ""
             otemp == IF i <= Len(oparts) THEN oparts[i] ELSE ""
             d == comparePrePart(stemp, otemp)
         IN  IF d # 1 THEN d ELSE comparePrerelease(sparts, oparts, i + 1)

compareSegment(v, o) == IF v < o THEN 0 ELSE IF v > o THEN 2 ELSE 1

\* (*semver.Version).Compare: -1, 0 or 1 as 0, 1 or 2
Compare(v, o) ==
    IF compareSegment(v.major, o.major) # 1 THEN compareSegment(v.major, o.major)
    ELSE IF compareSegment(v.minor, o.minor) # 1 THEN compareSegment(v.minor, o.minor)
    ELSE IF compareSegment(v.patch, o.patch) # 1 THEN compareSegment(v.patch, o.patch)
    ELSE IF v.pre = "" /\ o.pre = "" THEN 1
    ELSE IF v.pre = "" THEN 2
    ELSE IF o.pre = "" THEN 0
    ELSE comparePrerelease(Split(v.pre, "."), Split(o.pre, "."), 1)

Equal(v, o) == Compare(v, o) = 1
GreaterThan(v, o) == Compare(v, o) = 2

---------------------------------------------------------------------------
(* The goroutine's position in a call *)

NoCall == [op |-> "none", name |-> "", chart |-> "", flags |-> <<>>]
NoRet == [val |-> "", err |-> NilError]

ListValue(l) ==
    CASE l = "Charts" -> Charts
      [] l = "Releases" -> Releases
      [] l = "Deleted" -> Deleted
      [] l = "Linted" -> Linted
      [] l = "Templated" -> Templated
      [] l = "Diffed" -> Diffed

SetList(l, v) ==
    /\ Charts' = IF l = "Charts" THEN v ELSE Charts
    /\ Releases' = IF l = "Releases" THEN v ELSE Releases
    /\ Deleted' = IF l = "Deleted" THEN v ELSE Deleted
    /\ Linted' = IF l = "Linted" THEN v ELSE Linted
    /\ Templated' = IF l = "Templated" THEN v ELSE Templated
    /\ Diffed' = IF l = "Diffed" THEN v ELSE Diffed

\* the element the goroutine's current append adds to list l
Element(p, l) ==
    IF l = "Charts" THEN cur[p].chart ELSE Release(cur[p].name, cur[p].flags)

\* entering a call: the goroutine is between calls and the test has calls left
Invoke(p, op, name, chart, flags) ==
    /\ pc[p] = "idle"
    /\ left > 0
    /\ left' = left - 1
    /\ cur' = [cur EXCEPT ![p] = [op |-> op, name |-> name, chart |-> chart, flags |-> flags]]
    /\ wrote' = [wrote EXCEPT ![p] = <<>>]

\* return v, err
Return(p, v, err) ==
    /\ pc' = [pc EXCEPT ![p] = "idle"]
    /\ ret' = [ret EXCEPT ![p] = [val |-> v, err |-> err]]

\* start helm.l = append(helm.l, ...), under mutex m when m is not nil
BeginAppend(p, l, m) ==
    /\ pc' = [pc EXCEPT ![p] = IF m # NIL THEN "lock" ELSE "load"]
    /\ tgt' = [tgt EXCEPT ![p] = l]
    /\ mu' = [mu EXCEPT ![p] = m]

\* Enter without the strings.Contains check: the operation always records
EnterUnchecked(p, designated, err, l, m) ==
    /\ BeginAppend(p, l, m)
    /\ UNCHANGED <<lists, config, locked, tmp, ret, invoked>>

\* the sentinel check that opens an operation, then its first append
Enter(p, designated, err, l, m) ==
    /\ IF Contains(designated, Sentinel)
       THEN /\ Return(p, "", err)
            /\ UNCHANGED <<tgt, mu>>
       ELSE /\ BeginAppend(p, l, m)
            /\ UNCHANGED ret
    /\ UNCHANGED <<lists, config, locked, tmp, invoked>>

\* the append is over: its list and mutex are no longer the goroutine's
EndAppend(p) ==
    /\ tgt' = [tgt EXCEPT ![p] = ""]
    /\ mu' = [mu EXCEPT ![p] = NIL]

---------------------------------------------------------------------------
(* Response resolution *)

\* DiffResult taking a registered nil for a missing key (err == nil for !ok)
DiffResultNilIsMiss(name, chart, flags) ==
    IF Diffs.nil THEN NilError
    ELSE LET key == DiffKey(name, chart, Join(flags, ""))
             err == IF key \in DOMAIN Diffs.m THEN Diffs.m[key] ELSE NilError
         IN  IF err.nil /\ FailOnUnexpectedDiff
             THEN NewError("unexpected diff with key: " \o DiffKeyString(key))
             ELSE err

\* DiffRelease, after recording: the error the Diffs map gives the call
DiffResult(name, chart, flags) ==
    IF Diffs.nil THEN NilError
    ELSE LET key == DiffKey(name, chart, Join(flags, ""))
             ok == key \in DOMAIN Diffs.m
             err == IF ok THEN Diffs.m[key] ELSE NilError
         IN  IF ~ok /\ FailOnUnexpectedDiff
             THEN NewError("unexpected diff with key: " \o DiffKeyString(key))
             ELSE err

\* ListResult looking the key up by its filter alone
ListResultByFilter(filter, flags, order) ==
    IF Lists.nil THEN [val |-> "dummy non-empty helm-list output", err |-> NilError]
    ELSE LET hits == {k \in DOMAIN Lists.m : k.Filter = filter}
         IN  IF hits # {} THEN [val |-> Lists.m[CHOOSE k \in hits : TRUE], err |-> NilError]
             ELSE IF FailOnUnexpectedList
             THEN [val |-> "",
                   err |-> NewError("unexpected list key: "
                                    \o ListKeyString(ListKey(filter, Join(flags, "")))
                                    \o " not found in " \o Join(MapSeq(order, 1), ", "))]
             ELSE [val |-> "", err |-> NilError]

\* ListResult without the test of helm.Lists == nil
ListResultNoNilCheck(filter, flags, order) ==
    IF FailOnUnexpectedList
    THEN [val |-> "", err |-> NewError("unexpected list key: "
                                       \o ListKeyString(ListKey(filter, Join(flags, "")))
                                       \o " not found in ")]
    ELSE [val |-> "", err |-> NilError]

\* List: the string and error the Lists map gives the call; order is the
\* order in which the range over helm.Lists visits its keys
ListResult(filter, flags, order) ==
    LET key == ListKey(filter, Join(flags, ""))
    IN  IF Lists.nil THEN [val |-> "dummy non-empty helm-list output", err |-> NilError]
        ELSE LET ok == key \in DOMAIN Lists.m
                 res == IF ok THEN Lists.m[key] ELSE ""
             IN  IF ~ok /\ FailOnUnexpectedList
                 THEN [val |-> "",
                       err |-> NewError("unexpected list key: " \o ListKeyString(key)
                                        \o " not found in " \o Join(MapSeq(order, 1), ", "))]
                 ELSE [val |-> res, err |-> NilError]

---------------------------------------------------------------------------
(* Operations: the step that enters the call *)

UpdateDeps(p, chart) ==
    /\ Invoke(p, "UpdateDeps", "", chart, <<>>)
    /\ Enter(p, chart, NewError("simulated UpdateDeps failure for chart: " \o chart),
             "Charts", NIL)

BuildDeps(p, name, chart, flags) ==
    /\ Invoke(p, "BuildDeps", name, chart, flags)
    /\ Enter(p, chart, NewError("error"), "Charts", NIL)

SyncRelease(p, name, chart, flags) ==
    /\ Invoke(p, "SyncRelease", name, chart, flags)
    /\ Enter(p, name, NewError("error"), "Releases", ReleasesMutex)

\* DiffRelease without lines 121-123 and 125-127: the append is not guarded
DiffReleaseUnguarded(p, name, chart, flags) ==
    /\ Invoke(p, "DiffRelease", name, chart, flags)
    /\ BeginAppend(p, "Diffed", NIL)
    /\ UNCHANGED <<lists, config, locked, tmp, ret, invoked>>

\* DiffRelease opening with the sentinel check of the other operations
DiffReleaseChecked(p, name, chart, flags) ==
    /\ Invoke(p, "DiffRelease", name, chart, flags)
    /\ Enter(p, name, NewError("error"), "Diffed", DiffMutex)

\* DiffRelease testing helm.Diffs == nil before it records
DiffReleaseNilFirst(p, name, chart, flags) ==
    /\ Invoke(p, "DiffRelease", name, chart, flags)
    /\ IF Diffs.nil
       THEN /\ Return(p, "", NilError)
            /\ UNCHANGED <<tgt, mu>>
       ELSE /\ BeginAppend(p, "Diffed", DiffMutex)
            /\ UNCHANGED ret
    /\ UNCHANGED <<lists, config, locked, tmp, invoked>>

DiffRelease(p, name, chart, flags) ==
    /\ Invoke(p, "DiffRelease", name, chart, flags)
    /\ BeginAppend(p, "Diffed", DiffMutex)
    /\ UNCHANGED <<lists, config, locked, tmp, ret, invoked>>

ReleaseStatus(p, release, flags) ==
    /\ Invoke(p, "ReleaseStatus", release, "", flags)
    /\ Enter(p, release, NewError("error"), "Releases", NIL)

DeleteRelease(p, name, flags) ==
    /\ Invoke(p, "DeleteRelease", name, "", flags)
    /\ Enter(p, name, NewError("error"), "Deleted", NIL)

TestRelease(p, name, flags) ==
    /\ Invoke(p, "TestRelease", name, "", flags)
    /\ Enter(p, name, NewError("error"), "Releases", NIL)

\* Lint recording into the list of TemplateRelease
LintIntoTemplated(p, name, chart, flags) ==
    /\ Invoke(p, "Lint", name, chart, flags)
    /\ Enter(p, name, NewError("error"), "Templated", NIL)

Lint(p, name, chart, flags) ==
    /\ Invoke(p, "Lint", name, chart, flags)
    /\ Enter(p, name, NewError("error"), "Linted", NIL)

TemplateRelease(p, name, chart, flags) ==
    /\ Invoke(p, "TemplateRelease", name, chart, flags)
    /\ Enter(p, name, NewError("error"), "Templated", NIL)

List(p, filter, flags) ==
    /\ Invoke(p, "List", filter, "", flags)
    /\ \E order \in KeyOrders(DOMAIN Lists.m) :
          LET r == ListResult(filter, flags, order) IN Return(p, r.val, r.err)
    /\ UNCHANGED <<lists, config, locked, tgt, tmp, mu, invoked>>

\* a run-time panic: the call never returns
Panic(p) ==
    /\ pc' = [pc EXCEPT ![p] = "panic"]
    /\ UNCHANGED ret

\* IsHelm3 answering "major 3 or later"
IsHelm3OrLater(p) ==
    /\ Invoke(p, "IsHelm3", "", "", <<>>)
    /\ Return(p, IF Version.nil THEN Helm3 ELSE Version.major >= 3, NilError)
    /\ UNCHANGED <<lists, config, locked, tgt, tmp, mu, invoked>>

IsHelm3(p) ==
    /\ Invoke(p, "IsHelm3", "", "", <<>>)
    /\ Return(p, IF Version.nil THEN Helm3 ELSE Version.major = 3, NilError)
    /\ UNCHANGED <<lists, config, locked, tgt, tmp, mu, invoked>>

\* helm.Version.Major() on a nil helm.Version dereferences a nil pointer
GetVersion(p) ==
    /\ Invoke(p, "GetVersion", "", "", <<>>)
    /\ IF Version.nil
       THEN Panic(p)
       ELSE Return(p, [Major |-> Version.major, Minor |-> Version.minor,
                       Patch |-> Version.patch], NilError)
    /\ UNCHANGED <<lists, config, locked, tgt, tmp, mu, invoked>>

\* IsVersionAtLeast with GreaterThan alone
IsVersionAbove(p, versionStr) ==
    /\ Invoke(p, "IsVersionAtLeast", versionStr, "", <<>>)
    /\ IF Version.nil THEN Return(p, FALSE, NilError)
       ELSE LET ver == ParseVersion(versionStr)
            IN  IF ~ver.ok THEN Panic(p)
                ELSE Return(p, GreaterThan(Version, ver.v), NilError)
    /\ UNCHANGED <<lists, config, locked, tgt, tmp, mu, invoked>>

\* semver.MustParse panics when versionStr does not parse
IsVersionAtLeast(p, versionStr) ==
    /\ Invoke(p, "IsVersionAtLeast", versionStr, "", <<>>)
    /\ IF Version.nil THEN Return(p, FALSE, NilError)
       ELSE LET ver == ParseVersion(versionStr)
            IN  IF ~ver.ok THEN Panic(p)
                ELSE Return(p, Equal(Version, ver.v) \/ GreaterThan(Version, ver.v),
                            NilError)
    /\ UNCHANGED <<lists, config, locked, tgt, tmp, mu, invoked>>

---------------------------------------------------------------------------
(* Operations: the steps of an append and what follows it *)

\* Proceed with SyncRelease's second append passing no mutex to helm.sync
ProceedChartsUnguarded(p) ==
    LET c == cur[p] IN
    IF c.op = "SyncRelease" /\ tgt[p] = "Releases"
    THEN /\ BeginAppend(p, "Charts", NIL)
         /\ UNCHANGED ret
    ELSE /\ Return(p, "", NilError)
         /\ EndAppend(p)

\* Proceed with BuildDeps going on to record its release {name, flags}
ProceedBuildDepsRecords(p) ==
    LET c == cur[p] IN
    IF c.op = "SyncRelease" /\ tgt[p] = "Releases"
    THEN /\ BeginAppend(p, "Charts", ChartsMutex)
         /\ UNCHANGED ret
    ELSE IF c.op = "BuildDeps" /\ tgt[p] = "Charts"
    THEN /\ BeginAppend(p, "Releases", ReleasesMutex)
         /\ UNCHANGED ret
    ELSE IF c.op = "DiffRelease"
    THEN /\ Return(p, "", DiffResult(c.name, c.chart, c.flags))
         /\ EndAppend(p)
    ELSE IF /\ c.op = "UpdateDeps"
            /\ ~UpdateDepsCallbacks.nil
            /\ c.chart \in DOMAIN UpdateDepsCallbacks.m
    THEN /\ pc' = [pc EXCEPT ![p] = "callback"]
         /\ EndAppend(p)
         /\ UNCHANGED ret
    ELSE /\ Return(p, "", NilError)
         /\ EndAppend(p)

\* what the call does once its current append is complete
Proceed(p) ==
    LET c == cur[p] IN
    IF c.op = "SyncRelease" /\ tgt[p] = "Releases"
    THEN /\ BeginAppend(p, "Charts", ChartsMutex)
         /\ UNCHANGED ret
    ELSE IF c.op = "DiffRelease"
    THEN /\ Return(p, "", DiffResult(c.name, c.chart, c.flags))
         /\ EndAppend(p)
    ELSE IF /\ c.op = "UpdateDeps"
            /\ ~UpdateDepsCallbacks.nil
            /\ c.chart \in DOMAIN UpdateDepsCallbacks.m
    THEN /\ pc' = [pc EXCEPT ![p] = "callback"]
         /\ EndAppend(p)
         /\ UNCHANGED ret
    ELSE /\ Return(p, "", NilError)
         /\ EndAppend(p)

\* m.Lock()
Lock(p) ==
    /\ pc[p] = "lock"
    /\ locked[mu[p]] = 0
    /\ locked' = [locked EXCEPT ![mu[p]] = p]
    /\ pc' = [pc EXCEPT ![p] = "load"]
    /\ UNCHANGED <<lists, config, cur, tgt, tmp, mu, ret, left, wrote, invoked>>

\* Load taking an empty slice for the slice to append to
LoadFresh(p) ==
    /\ pc[p] = "load"
    /\ tmp' = [tmp EXCEPT ![p] = <<>>]
    /\ pc' = [pc EXCEPT ![p] = "store"]
    /\ UNCHANGED <<lists, config, locked, cur, tgt, mu, ret, left, wrote, invoked>>

\* append(helm.X, r) reads helm.X
Load(p) ==
    /\ pc[p] = "load"
    /\ tmp' = [tmp EXCEPT ![p] = ListValue(tgt[p])]
    /\ pc' = [pc EXCEPT ![p] = "store"]
    /\ UNCHANGED <<lists, config, locked, cur, tgt, mu, ret, left, wrote, invoked>>

\* Store assigning a fresh one-element slice instead of the appended one
StoreOverwrite(p) ==
    /\ pc[p] = "store"
    /\ SetList(tgt[p], <<Element(p, tgt[p])>>)
    /\ tmp' = [tmp EXCEPT ![p] = <<>>]
    /\ wrote' = [wrote EXCEPT ![p] = Append(@, tgt[p])]
    /\ IF mu[p] # NIL
       THEN /\ pc' = [pc EXCEPT ![p] = "unlock"]
            /\ UNCHANGED <<tgt, mu, ret>>
       ELSE Proceed(p)
    /\ UNCHANGED <<config, locked, cur, left, invoked>>

\* helm.X = <the appended slice>
Store(p) ==
    /\ pc[p] = "store"
    /\ SetList(tgt[p], Append(tmp[p], Element(p, tgt[p])))
    /\ tmp' = [tmp EXCEPT ![p] = <<>>]
    /\ wrote' = [wrote EXCEPT ![p] = Append(@, tgt[p])]
    /\ IF mu[p] # NIL
       THEN /\ pc' = [pc EXCEPT ![p] = "unlock"]
            /\ UNCHANGED <<tgt, mu, ret>>
       ELSE Proceed(p)
    /\ UNCHANGED <<config, locked, cur, left, invoked>>

\* helm.sync without its deferred m.Unlock(): the call goes on holding m
UnlockForgotten(p) ==
    /\ pc[p] = "unlock"
    /\ Proceed(p)
    /\ UNCHANGED <<lists, config, locked, cur, tmp, left, wrote, invoked>>

\* m.Unlock()
Unlock(p) ==
    /\ pc[p] = "unlock"
    /\ locked' = [locked EXCEPT ![mu[p]] = 0]
    /\ Proceed(p)
    /\ UNCHANGED <<lists, config, cur, tmp, left, wrote, invoked>>

\* Callback with UpdateDeps ignoring the error of the callback
CallbackErrorDropped(p) ==
    /\ pc[p] = "callback"
    /\ invoked' = Append(invoked, <<cur[p].chart, cur[p].chart>>)
    /\ Return(p, "", NilError)
    /\ UNCHANGED <<lists, config, locked, cur, tgt, tmp, mu, left, wrote>>

\* callback(chart), whose result UpdateDeps returns
Callback(p) ==
    /\ pc[p] = "callback"
    /\ invoked' = Append(invoked, <<cur[p].chart, cur[p].chart>>)
    /\ Return(p, "", UpdateDepsCallbacks.m[cur[p].chart])
    /\ UNCHANGED <<lists, config, locked, cur, tgt, tmp, mu, left, wrote>>

---------------------------------------------------------------------------
(* Construction: the zero Helm value with the fields a test sets *)

InitLists ==
    /\ Charts = <<>> /\ Releases = <<>> /\ Deleted = <<>>
    /\ Linted = <<>> /\ Templated = <<>> /\ Diffed = <<>>

InitProcs ==
    /\ locked = [m \in Mutexes |-> 0]
    /\ pc = [p \in Procs |-> "idle"]
    /\ cur = [p \in Procs |-> NoCall]
    /\ tgt = [p \in Procs |-> ""]
    /\ tmp = [p \in Procs |-> <<>>]
    /\ mu = [p \in Procs |-> NIL]
    /\ ret = [p \in Procs |-> NoRet]
    /\ wrote = [p \in Procs |-> <<>>]
    /\ invoked = <<>>

\* Injections of mutexes into <<ReleasesMutex, ChartsMutex, DiffMutex>>: every
\* way to leave fields nil and to share one mutex object between fields, up
\* to the naming of the mutex objects.
\* the version fields of a Helm value that sets neither
InitVersion ==
    /\ Version = NilVersion
    /\ Helm3 = FALSE

MutexInjections ==
    {i \in [1..3 -> Mutexes \cup {NIL}] :
        /\ \A k \in 1..3 : i[k] = "m2" => \E j \in 1..(k - 1) : i[j] = "m1"
        /\ \A k \in 1..3 : i[k] = "m3" => \E j \in 1..(k - 1) : i[j] = "m2"}

---------------------------------------------------------------------------
(* The mixed workload: two goroutines, every operation *)

MixNames == {"web", "db"}
\* in the mixed workload each goroutine works on a release and a chart of
\* its own
MixName(p) == IF p = 1 THEN "web" ELSE "db"
MixChart(p) == IF p = 1 THEN "nginx" ELSE "redis"
MixCharts == {"nginx", "redis"}
MixFlags == <<"--wait", "--atomic">>

MixDiffs == MakeMap([k \in {DiffKey("web", "nginx", "--wait--atomic")} |-> NewError("exit status 2")])
MixLists == MakeMap([k \in {ListKey("^web$", "--wait--atomic")} |-> "web"])
MixCallbacks == MakeMap([c \in {"redis"} |-> NewError("callback failed")])

Init ==
    /\ InitLists
    /\ InitProcs
    /\ InitVersion
    /\ Lists = MixLists
    /\ Diffs = MixDiffs
    /\ FailOnUnexpectedDiff = TRUE
    /\ FailOnUnexpectedList = TRUE
    /\ UpdateDepsCallbacks = MixCallbacks
    /\ \E i \in MutexInjections :
          /\ ReleasesMutex = i[1]
          /\ ChartsMutex = i[2]
          /\ DiffMutex = i[3]
    /\ left = MaxCalls

Next ==
    \E p \in Callers :
        \/ UpdateDeps(p, MixChart(p))
        \/ BuildDeps(p, MixName(p), MixChart(p), MixFlags)
        \/ SyncRelease(p, MixName(p), MixChart(p), MixFlags)
        \/ DiffRelease(p, MixName(p), MixChart(p), MixFlags)
        \/ ReleaseStatus(p, MixName(p), MixFlags)
        \/ DeleteRelease(p, MixName(p), MixFlags)
        \/ TestRelease(p, MixName(p), MixFlags)
        \/ Lint(p, MixName(p), MixChart(p), MixFlags)
        \/ TemplateRelease(p, MixName(p), MixChart(p), MixFlags)
        \/ List(p, "^" \o MixName(p) \o "$", MixFlags)
        \/ Lock(p) \/ Load(p) \/ Store(p) \/ Unlock(p) \/ Callback(p)

Spec == Init /\ [][Next]_vars

\* the steps a goroutine takes inside a call
Step(p) == Lock(p) \/ Load(p) \/ Store(p) \/ Unlock(p) \/ Callback(p)

\* The Go scheduler runs every goroutine that can take a step: one that is
\* inside a call and not blocked in m.Lock() on a held mutex.  Nothing obliges
\* the test to start a call.
Fairness == \A p \in Callers : WF_vars(Step(p))

FairSpec == Spec /\ Fairness

---------------------------------------------------------------------------
(* Helpers of the properties *)

Range(s) == {s[i] : i \in DOMAIN s}

\* a list as a bag: each element with the number of times it occurs
BagOfSeq(s) == [x \in Range(s) |-> Cardinality({i \in DOMAIN s : s[i] = x})]

\* the goroutines that have made a call of operation op
CallersOf(op) == {p \in Procs : cur[p].op = op}

\* the bag of the elements that the calls of the goroutines in P append to list l
BagOfCalls(P, l) ==
    [x \in {Element(p, l) : p \in P} |-> Cardinality({p \in P : Element(p, l) = x})]

AllReturned == \A p \in Procs : pc[p] = "idle"

IsPrefix(s, t) == Len(s) <= Len(t) /\ SubSeq(t, 1, Len(s)) = s

---------------------------------------------------------------------------
(* N concurrent DiffRelease calls, DiffMutex supplied *)

InitDiff ==
    /\ InitLists
    /\ InitProcs
    /\ InitVersion
    /\ Lists = MixLists
    /\ Diffs \in {NilMap, MixDiffs}
    /\ FailOnUnexpectedDiff = TRUE
    /\ FailOnUnexpectedList = TRUE
    /\ UpdateDepsCallbacks = NilMap
    /\ \E i \in MutexInjections :
          /\ i[3] # NIL
          /\ ReleasesMutex = i[1]
          /\ ChartsMutex = i[2]
          /\ DiffMutex = i[3]
    /\ left = NProcs

\* a goroutine that has made no call yet calls DiffRelease on a triple that
\* no other goroutine's call uses
DiffDistinct(p) ==
    /\ cur[p] = NoCall
    /\ \E name \in MixNames, chart \in MixCharts :
          /\ \A q \in Procs : cur[q] = NoCall \/ <<cur[q].name, cur[q].chart>> # <<name, chart>>
          /\ DiffRelease(p, name, chart, MixFlags)

NextDiff ==
    \E p \in Procs : DiffDistinct(p) \/ Lock(p) \/ Load(p) \/ Store(p) \/ Unlock(p)

SpecDiff == InitDiff /\ [][NextDiff]_vars

(* C1: with DiffMutex supplied, once every one of the N concurrent            *)
(* DiffRelease calls on distinct triples has returned, Diffed has exactly N   *)
(* entries and holds one entry {name, flags} per call: as a bag, Diffed is    *)
(* the bag of the calls' records (nothing lost, duplicated or overwritten).   *)
C1_DiffedHoldsEveryCall ==
    AllReturned =>
        /\ Len(Diffed) = Cardinality(CallersOf("DiffRelease"))
        /\ BagOfSeq(Diffed) = BagOfCalls(CallersOf("DiffRelease"), "Diffed")

\* all N goroutines have called and returned, two of them with the same
\* {name, flags} record under different charts
C1_Witness ==
    /\ AllReturned
    /\ CallersOf("DiffRelease") = Procs
    /\ Len(Diffed) = NProcs
    /\ \E p, q \in Procs : p # q /\ cur[p].name = cur[q].name

---------------------------------------------------------------------------
(* The mixed workload: properties *)

\* every goroutine that has called has made exactly one call
OneCallEach == Cardinality({p \in Procs : cur[p] # NoCall}) = MaxCalls - left

\* the goroutines whose call appends to Releases, and to Charts
ReleasesWriters == CallersOf("SyncRelease") \cup CallersOf("ReleaseStatus") \cup CallersOf("TestRelease")
ChartsWriters == CallersOf("SyncRelease") \cup CallersOf("UpdateDeps") \cup CallersOf("BuildDeps")

(* C2: with ReleasesMutex and ChartsMutex supplied, after any mix of          *)
(* concurrent calls with non-sentinel inputs has returned, Releases and       *)
(* Charts hold one entry per append made by SyncRelease, ReleaseStatus,       *)
(* TestRelease, UpdateDeps and BuildDeps: none is lost.                       *)
C2_NoAppendLost ==
    (ReleasesMutex # NIL /\ ChartsMutex # NIL /\ AllReturned /\ OneCallEach) =>
        /\ BagOfSeq(Releases) = BagOfCalls(ReleasesWriters, "Releases")
        /\ BagOfSeq(Charts) = BagOfCalls(ChartsWriters, "Charts")

---------------------------------------------------------------------------
(* N concurrent SyncRelease calls, ReleasesMutex and ChartsMutex supplied *)

InitSync ==
    /\ InitLists
    /\ InitProcs
    /\ InitVersion
    /\ Lists = MixLists
    /\ Diffs = MixDiffs
    /\ FailOnUnexpectedDiff = TRUE
    /\ FailOnUnexpectedList = TRUE
    /\ UpdateDepsCallbacks = MixCallbacks
    /\ \E i \in MutexInjections :
          /\ i[1] # NIL /\ i[2] # NIL /\ i[3] = NIL
          /\ ReleasesMutex = i[1]
          /\ ChartsMutex = i[2]
          /\ DiffMutex = i[3]
    /\ left = NProcs

\* a goroutine that has made no call yet calls SyncRelease
SyncOnce(p) ==
    /\ cur[p] = NoCall
    /\ \E name \in MixNames, chart \in MixCharts : SyncRelease(p, name, chart, MixFlags)

NextSync ==
    \E p \in Procs : SyncOnce(p) \/ Lock(p) \/ Load(p) \/ Store(p) \/ Unlock(p)

SpecSync == InitSync /\ [][NextSync]_vars

(* C3: with ReleasesMutex and ChartsMutex supplied, once every one of the N   *)
(* concurrent SyncRelease calls (non-sentinel names, no other operation) has  *)
(* returned, Releases has N entries, one {name, flags} per call, and Charts   *)
(* has N entries, one chart per call.                                         *)
C3_SyncKeepsEveryCall ==
    AllReturned =>
        /\ Len(Releases) = Cardinality(CallersOf("SyncRelease"))
        /\ BagOfSeq(Releases) = BagOfCalls(CallersOf("SyncRelease"), "Releases")
        /\ Len(Charts) = Cardinality(CallersOf("SyncRelease"))
        /\ BagOfSeq(Charts) = BagOfCalls(CallersOf("SyncRelease"), "Charts")

\* all N goroutines have returned from SyncRelease, and the two lists hold
\* the calls in different orders
C3_Witness ==
    /\ AllReturned
    /\ CallersOf("SyncRelease") = Procs
    /\ Len(Releases) = NProcs /\ Len(Charts) = NProcs
    /\ Releases[1].Name = "web" /\ Releases[2].Name = "db"
    /\ Charts[1] = "redis" /\ Charts[2] = "nginx"
    /\ \A p \in Procs : cur[p].name = "web" <=> cur[p].chart = "nginx"

\* every observation list keeps what it held, in place
AppendOnly ==
    /\ IsPrefix(Charts, Charts') /\ IsPrefix(Releases, Releases')
    /\ IsPrefix(Deleted, Deleted') /\ IsPrefix(Linted, Linted')
    /\ IsPrefix(Templated, Templated') /\ IsPrefix(Diffed, Diffed')

\* the expectation maps and the strict-mode flags
expectations == <<Lists, Diffs, FailOnUnexpectedDiff, FailOnUnexpectedList>>

\* at most one goroutine has ever called the double
SingleCaller == Cardinality({p \in Procs : cur[p] # NoCall}) <= 1

(* C10 as stated: with the three mutexes supplied, in any interleaving of    *)
(* operations every observation list before a step is a prefix of the list   *)
(* after it, and no step changes Lists, Diffs or the strict-mode flags.      *)
C10_AppendOnlyWithLocks ==
    [][(ReleasesMutex # NIL /\ ChartsMutex # NIL /\ DiffMutex # NIL) =>
          AppendOnly /\ expectations' = expectations]_vars

(* C10 amended: across any sequence of operations made by a single caller    *)
(* every observation list before a step is a prefix of the list after it;    *)
(* among concurrent callers this holds of Diffed when DiffMutex is supplied  *)
(* (the other lists have writers that take no mutex); and no step of any     *)
(* interleaving changes Lists, Diffs or the strict-mode flags.               *)
C10_AppendOnlyAmended ==
    [][/\ SingleCaller' => AppendOnly
       /\ DiffMutex # NIL => IsPrefix(Diffed, Diffed')
       /\ expectations' = expectations]_vars

\* with DiffMutex supplied, the concurrent DiffRelease calls of the two
\* goroutines have returned and Diffed holds both records
C10_Witness ==
    /\ DiffMutex # NIL
    /\ CallersOf("DiffRelease") = Callers
    /\ AllReturned
    /\ Len(Diffed) = 2

\* the mutexes goroutine p holds
HeldBy(p) == {m \in Mutexes : locked[m] = p}

(* C4: for any mix of operations by concurrent callers and any injection of  *)
(* mutexes (none, some, all, one object for several fields), a goroutine     *)
(* never holds more than one mutex, holds none when it is not inside a call, *)
(* and under fair scheduling every call that has started returns.            *)
C4_NoDeadlock ==
    /\ [](\A p \in Procs : Cardinality(HeldBy(p)) <= 1)
    /\ [](\A p \in Procs : pc[p] = "idle" => HeldBy(p) = {})
    /\ \A p \in Callers : (pc[p] # "idle") ~> (pc[p] = "idle")

\* one mutex object injected for all three fields; a goroutine inside
\* SyncRelease waits for it while a goroutine inside DiffRelease holds it
C4_Witness ==
    /\ ReleasesMutex # NIL /\ ChartsMutex = ReleasesMutex /\ DiffMutex = ReleasesMutex
    /\ \E p, q \in Callers :
          /\ p # q
          /\ cur[p].op = "SyncRelease" /\ pc[p] = "lock" /\ tgt[p] = "Charts"
          /\ cur[q].op = "DiffRelease" /\ HeldBy(q) = {mu[p]}

---------------------------------------------------------------------------
(* One caller, every recording operation, inputs with and without the       *)
(* sentinel                                                                  *)

SeqNames == {"web", "db-error-1", "Error"}
SeqCharts == {"nginx", "broken-error-chart"}

SeqDiffs ==
    MakeMap([k \in {DiffKey("db-error-1", "nginx", "--wait--atomic"),
                    DiffKey("web", "nginx", "--wait--atomic")} |->
                IF k.Name = "web" THEN NewError("exit status 2") ELSE NilError])
SeqCallbacks ==
    MakeMap([c \in SeqCharts |-> IF c = "nginx" THEN NewError("callback failed") ELSE NilError])

InitSeq ==
    /\ InitLists
    /\ InitProcs
    /\ InitVersion
    /\ Lists = NilMap
    /\ Diffs \in {NilMap, SeqDiffs}
    /\ FailOnUnexpectedDiff = TRUE
    /\ FailOnUnexpectedList = FALSE
    /\ UpdateDepsCallbacks \in {NilMap, SeqCallbacks}
    /\ \E i \in {[k \in 1..3 |-> NIL], <<"m1", "m2", "m3">>} :
          /\ ReleasesMutex = i[1]
          /\ ChartsMutex = i[2]
          /\ DiffMutex = i[3]
    /\ left = MaxCalls

NextSeq ==
    \E p \in {1} :
        \/ \E chart \in SeqCharts : UpdateDeps(p, chart)
        \/ \E chart \in SeqCharts : BuildDeps(p, "web", chart, MixFlags)
        \/ \E name \in SeqNames, chart \in SeqCharts : SyncRelease(p, name, chart, MixFlags)
        \/ \E name \in SeqNames, chart \in SeqCharts : DiffRelease(p, name, chart, MixFlags)
        \/ \E name \in SeqNames : ReleaseStatus(p, name, MixFlags)
        \/ \E name \in SeqNames : DeleteRelease(p, name, MixFlags)
        \/ \E name \in SeqNames : TestRelease(p, name, MixFlags)
        \/ \E name \in SeqNames, chart \in SeqCharts : Lint(p, name, chart, MixFlags)
        \/ \E name \in SeqNames, chart \in SeqCharts : TemplateRelease(p, name, chart, MixFlags)
        \/ Lock(p) \/ Load(p) \/ Store(p) \/ Unlock(p) \/ Callback(p)

SpecSeq == InitSeq /\ [][NextSeq]_vars

\* the operations that open with the sentinel check, and the input they check
SentinelOps ==
    {"SyncRelease", "ReleaseStatus", "DeleteRelease", "TestRelease", "Lint",
     "TemplateRelease", "UpdateDeps", "BuildDeps"}
Designated(c) == IF c.op \in {"UpdateDeps", "BuildDeps"} THEN c.chart ELSE c.name

(* C5: from any reachable state, a call of SyncRelease, ReleaseStatus,       *)
(* DeleteRelease, TestRelease, Lint or TemplateRelease whose release name,   *)
(* or of UpdateDeps or BuildDeps whose chart, contains "error" returns a     *)
(* non-nil error in the step that enters it, and that step changes no        *)
(* observation list, invokes no callback and acquires no mutex.              *)
C5_SentinelFailsWithoutEffect ==
    [][(/\ left' = left - 1
        /\ cur'[1].op \in SentinelOps
        /\ Contains(Designated(cur'[1]), Sentinel))
       => /\ pc'[1] = "idle"
          /\ ~ret'[1].err.nil
          /\ wrote'[1] = <<>>
          /\ lists' = lists
          /\ invoked' = invoked
          /\ locked' = locked]_vars

\* UpdateDeps has failed on a chart with the sentinel for which a callback
\* is registered, with mutexes supplied and Charts already holding a record
C5_Witness ==
    /\ cur[1].op = "UpdateDeps" /\ Contains(cur[1].chart, Sentinel)
    /\ pc[1] = "idle" /\ ~ret[1].err.nil
    /\ ~UpdateDepsCallbacks.nil /\ cur[1].chart \in DOMAIN UpdateDepsCallbacks.m
    /\ ChartsMutex # NIL
    /\ Charts = <<"nginx">>
    /\ left = MaxCalls - 2

(* C6 as stated: a DiffRelease call whose release name contains the sentinel *)
(* returns a failure and never changes Diffed.                               *)
C6_SentinelDiffFails ==
    [][(cur'[1].op = "DiffRelease" /\ Contains(cur'[1].name, Sentinel))
       => /\ Diffed' = Diffed
          /\ pc'[1] = "idle" => ~ret'[1].err.nil]_vars

(* C6 amended: DiffRelease makes no sentinel check.  A call whose release    *)
(* name contains the sentinel appends its record {name, flags} to Diffed,    *)
(* to no other list, like any other DiffRelease call, and its result is      *)
(* resolved from the Diffs map: nil when no Diffs map is configured, the     *)
(* registered value when its key is registered.                              *)
C6_SentinelDiffRecords ==
    LET c == cur[1]
        key == DiffKey(c.name, c.chart, Join(c.flags, ""))
    IN  (c.op = "DiffRelease" /\ Contains(c.name, Sentinel) /\ pc[1] = "idle") =>
            /\ wrote[1] = <<"Diffed">>
            /\ Diffed # <<>> /\ Diffed[Len(Diffed)] = Release(c.name, c.flags)
            /\ Diffs.nil => ret[1].err.nil
            /\ (~Diffs.nil /\ key \in DOMAIN Diffs.m) => ret[1].err = Diffs.m[key]

\* a DiffRelease call on a name with the sentinel has returned nil and its
\* record is the second of Diffed
C6_Witness ==
    /\ cur[1].op = "DiffRelease" /\ Contains(cur[1].name, Sentinel)
    /\ pc[1] = "idle" /\ ret[1].err.nil
    /\ Len(Diffed) = 2 /\ Diffed[2] = Release(cur[1].name, cur[1].flags)
    /\ Diffed[1].Name = "web"

---------------------------------------------------------------------------
(* One caller, DiffRelease and List under every kind of expectation map *)

ResNames == {"app", "my-error-app"}
ResCharts == {"chart-x", "chart-y"}
ResFilters == {"^app$", "^db$"}
ResFlags == {<<"--flag">>, <<"a", "bc">>, <<"ab", "c">>}

EmptyMap == MakeMap(<<>>)
ResDiffs ==
    MakeMap([k \in {DiffKey("app", "chart-x", "--flag"), DiffKey("app", "chart-x", "abc")} |->
                IF k.Flags = "abc" THEN NewError("exit status 2") ELSE NilError])
ResLists ==
    MakeMap([k \in {ListKey("^app$", "--flag"), ListKey("^db$", "abc")} |->
                IF k.Flags = "abc" THEN "db 3 deployed" ELSE "app 1 deployed"])

InitResolve ==
    /\ InitLists
    /\ InitProcs
    /\ InitVersion
    /\ Lists \in {NilMap, EmptyMap, ResLists}
    /\ Diffs \in {NilMap, EmptyMap, ResDiffs}
    /\ FailOnUnexpectedDiff \in BOOLEAN
    /\ FailOnUnexpectedList \in BOOLEAN
    /\ UpdateDepsCallbacks = NilMap
    /\ ReleasesMutex = NIL /\ ChartsMutex = NIL /\ DiffMutex \in {NIL, "m1"}
    /\ left = MaxCalls

NextResolve ==
    \E p \in {1} :
        \/ \E name \in ResNames, chart \in ResCharts, flags \in ResFlags :
              DiffRelease(p, name, chart, flags)
        \/ \E filter \in ResFilters, flags \in ResFlags : List(p, filter, flags)
        \/ Lock(p) \/ Load(p) \/ Store(p) \/ Unlock(p)

SpecResolve == InitResolve /\ [][NextResolve]_vars

(* C7: with a Diffs map configured, a DiffRelease call whose key {name,      *)
(* chart, concatenated flags} is registered returns exactly the registered   *)
(* error value (nil when nil is registered) whatever FailOnUnexpectedDiff    *)
(* is; for an unregistered key it returns a non-nil error naming the key's   *)
(* name, chart and flags when FailOnUnexpectedDiff is set, and nil when not. *)
C7_DiffResolution ==
    LET c == cur[1]
        key == DiffKey(c.name, c.chart, Join(c.flags, ""))
        err == ret[1].err
    IN  (c.op = "DiffRelease" /\ pc[1] = "idle" /\ ~Diffs.nil) =>
            IF key \in DOMAIN Diffs.m THEN err = Diffs.m[key]
            ELSE IF FailOnUnexpectedDiff
            THEN /\ ~err.nil
                 /\ Contains(err.msg, key.Name)
                 /\ Contains(err.msg, key.Chart)
                 /\ Contains(err.msg, key.Flags)
            ELSE err.nil

\* in strict mode, a call on a key registered with nil has returned nil
C7_Witness ==
    /\ cur[1].op = "DiffRelease" /\ pc[1] = "idle"
    /\ FailOnUnexpectedDiff /\ Diffs = ResDiffs
    /\ cur[1].name = "app" /\ cur[1].chart = "chart-x" /\ cur[1].flags = <<"--flag">>
    /\ ret[1].err.nil
    /\ Len(Diffed) = 2

(* C8: with a Lists map configured, a List call whose key {filter,           *)
(* concatenated flags} is registered returns the registered string and no    *)
(* error; for an unregistered key it returns "" with a non-nil error naming  *)
(* the key's filter and flags when FailOnUnexpectedList is set, and "" with  *)
(* no error when not.  List changes no observation list and no expectation   *)
(* map.                                                                      *)
C8_ListResolution ==
    [][(left' = left - 1 /\ cur'[1].op = "List") =>
          LET c == cur'[1]
              key == ListKey(c.name, Join(c.flags, ""))
              r == ret'[1]
          IN  /\ pc'[1] = "idle"
              /\ lists' = lists
              /\ config' = config
              /\ ~Lists.nil =>
                    IF key \in DOMAIN Lists.m
                    THEN r.val = Lists.m[key] /\ r.err.nil
                    ELSE IF FailOnUnexpectedList
                    THEN /\ r.val = ""
                         /\ ~r.err.nil
                         /\ Contains(r.err.msg, key.Filter)
                         /\ Contains(r.err.msg, key.Flags)
                    ELSE r.val = "" /\ r.err.nil]_vars

\* in strict mode, a List call on an unregistered key has failed, after a
\* DiffRelease call has been recorded
C8_Witness ==
    /\ cur[1].op = "List" /\ pc[1] = "idle"
    /\ FailOnUnexpectedList /\ Lists = ResLists
    /\ cur[1].name = "^db$" /\ cur[1].flags = <<"--flag">>
    /\ ~ret[1].err.nil /\ ret[1].val = ""
    /\ Len(Diffed) = 1

(* C9: with neither map configured (Lists nil and Diffs nil), whatever the   *)
(* filter, name, chart and flags and whatever the strict-mode flags, List    *)
(* returns the fixed non-empty placeholder and no error, and DiffRelease     *)
(* returns nil.                                                              *)
C9_NoMapNoFailure ==
    (Lists.nil /\ Diffs.nil /\ pc[1] = "idle") =>
        /\ cur[1].op = "List" =>
              /\ ret[1].val = "dummy non-empty helm-list output"
              /\ Len(ret[1].val) > 0
              /\ ret[1].err.nil
        /\ cur[1].op = "DiffRelease" => ret[1].err.nil

\* both strict-mode flags set and no map: List has returned the placeholder
\* after a DiffRelease call on a name with the sentinel
C9_Witness ==
    /\ Lists.nil /\ Diffs.nil /\ FailOnUnexpectedList /\ FailOnUnexpectedDiff
    /\ cur[1].op = "List" /\ pc[1] = "idle"
    /\ ret[1].val = "dummy non-empty helm-list output"
    /\ Len(Diffed) = 1 /\ Contains(Diffed[1].Name, Sentinel)

---------------------------------------------------------------------------
(* One caller, the version queries under every kind of configured version *)

VerConfigured == {"1.2.2", "1.2.3", "1.3.0", "1.2.3-alpha", "v2.17.0", "3.0.0-rc.1",
                  "3.9.4", "4.0.0"}
VerQueries == {"1.2.3", "1.2", "v3", "3.0.0-rc.2", "1.2.3-beta", "3.0.0",
               "not-a-version", "", "1.2.3.4"}

InitVer ==
    /\ InitLists
    /\ InitProcs
    /\ Lists = NilMap
    /\ Diffs = NilMap
    /\ FailOnUnexpectedDiff = FALSE
    /\ FailOnUnexpectedList = FALSE
    /\ UpdateDepsCallbacks = NilMap
    /\ ReleasesMutex = NIL /\ ChartsMutex = NIL /\ DiffMutex = NIL
    /\ Version \in {NilVersion} \cup {ParseVersion(s).v : s \in VerConfigured}
    /\ Helm3 \in BOOLEAN
    /\ left = MaxCalls

NextVer ==
    \E p \in {1} :
        \/ IsHelm3(p)
        \/ GetVersion(p)
        \/ \E versionStr \in VerQueries : IsVersionAtLeast(p, versionStr)

SpecVer == InitVer /\ [][NextVer]_vars

(* C11: no operation of the double crashes: whatever the configuration       *)
(* (Version unset included), every call of GetVersion, IsVersionAtLeast and  *)
(* IsHelm3 returns normally.                                                 *)
C11_NoCrash == \A p \in Procs : pc[p] # "panic"

\* (major, minor, patch) of a version, and their lexicographic order
Triple(v) == <<v.major, v.minor, v.patch>>
TripleAtLeast(a, b) ==
    \/ a[1] > b[1]
    \/ a[1] = b[1] /\ a[2] > b[2]
    \/ a[1] = b[1] /\ a[2] = b[2] /\ a[3] >= b[3]

\* the caller's last call was IsVersionAtLeast and it has returned
AtLeastReturned == cur[1].op = "IsVersionAtLeast" /\ pc[1] = "idle"

(* C12 as stated: IsVersionAtLeast(X) returns true exactly when a Version is *)
(* configured and its (major, minor, patch) is at least that of X in         *)
(* lexicographic order; with no Version configured it returns false for      *)
(* every X, a malformed X included.                                          *)
C12_AtLeastByTriple ==
    AtLeastReturned =>
        LET x == ParseVersion(cur[1].name)
        IN  IF Version.nil THEN ret[1].val = FALSE
            ELSE ret[1].val = TripleAtLeast(Triple(Version), Triple(x.v))

(* C12 amended: with no Version configured IsVersionAtLeast(X) returns false *)
(* for every X, a malformed X included.  With a Version configured and a     *)
(* well-formed X: when the two (major, minor, patch) triples differ, or      *)
(* neither version carries a pre-release tag, it returns true exactly when   *)
(* the configured triple is at least that of X in lexicographic order; when  *)
(* the triples are equal, a version with a pre-release tag is below the one  *)
(* without (configured 1.2.3-alpha is not at least 1.2.3, configured 1.2.3   *)
(* is at least 1.2.3-beta), and equal pre-release tags give true.            *)
C12_AtLeastBySemver ==
    AtLeastReturned =>
        LET x == ParseVersion(cur[1].name)
            tv == Triple(Version)
            tx == Triple(x.v)
        IN  IF Version.nil THEN ret[1].val = FALSE
            ELSE /\ x.ok
                 /\ (tv # tx \/ (Version.pre = "" /\ x.v.pre = "")) =>
                        ret[1].val = TripleAtLeast(tv, tx)
                 /\ (tv = tx /\ Version.pre # "" /\ x.v.pre = "") => ret[1].val = FALSE
                 /\ (tv = tx /\ Version.pre = "" /\ x.v.pre # "") => ret[1].val = TRUE
                 /\ (tv = tx /\ Version.pre = x.v.pre) => ret[1].val = TRUE

\* configured 1.2.3 and X = "1.2", which parses as 1.2.0: the second query
\* of the run has returned true
C12_Witness ==
    /\ AtLeastReturned
    /\ Version = MakeVersion(1, 2, 3, "") /\ cur[1].name = "1.2"
    /\ ret[1].val = TRUE
    /\ left = MaxCalls - 2

(* C19: IsHelm3 returns the Helm3 flag when no Version is configured; when a *)
(* Version is configured it ignores the flag and returns true exactly when   *)
(* the major component of the version is 3 (false for 2 and for 4).          *)
C19_IsHelm3 ==
    (cur[1].op = "IsHelm3" /\ pc[1] = "idle") =>
        IF Version.nil THEN ret[1].val = Helm3
        ELSE ret[1].val = (Version.major = 3)

\* with the Helm3 flag set and version 4.0.0 configured, IsHelm3 has
\* returned false
C19_Witness ==
    /\ cur[1].op = "IsHelm3" /\ pc[1] = "idle"
    /\ Helm3 /\ Version = MakeVersion(4, 0, 0, "")
    /\ ret[1].val = FALSE

---------------------------------------------------------------------------
(* One caller, DiffRelease alone, every outcome of the resolution *)

InitDiffSeq ==
    /\ InitLists
    /\ InitProcs
    /\ InitVersion
    /\ Lists = NilMap
    /\ Diffs \in {NilMap, EmptyMap, ResDiffs}
    /\ FailOnUnexpectedDiff \in BOOLEAN
    /\ FailOnUnexpectedList = FALSE
    /\ UpdateDepsCallbacks = NilMap
    /\ ReleasesMutex = NIL /\ ChartsMutex = NIL /\ DiffMutex \in {NIL, "m1"}
    /\ left = MaxCalls

NextDiffSeq ==
    \E p \in {1} :
        \/ \E name \in ResNames, chart \in ResCharts, flags \in ResFlags :
              DiffRelease(p, name, chart, flags)
        \/ Lock(p) \/ Load(p) \/ Store(p) \/ Unlock(p)

SpecDiffSeq == InitDiffSeq /\ [][NextDiffSeq]_vars

\* the DiffRelease calls the caller has started
DiffCalls == MaxCalls - left

(* C13: in a sequential run of DiffRelease calls, whatever each call's       *)
(* outcome (no Diffs map, registered nil, registered error, strict-mode      *)
(* failure on an unregistered key, lenient miss), when a call has returned   *)
(* the length of Diffed equals the number of calls made and the last entry   *)
(* of Diffed is the record {name, flags} of that call; while a call is in    *)
(* progress only its own record can be missing.                              *)
C13_DiffAlwaysRecords ==
    /\ pc[1] = "idle" =>
          /\ Len(Diffed) = DiffCalls
          /\ DiffCalls > 0 => Diffed[Len(Diffed)] = Release(cur[1].name, cur[1].flags)
    /\ pc[1] # "idle" => Len(Diffed) + 1 = DiffCalls \/ Len(Diffed) = DiffCalls

\* the last call of the run has failed in strict mode on an unregistered
\* key, and Diffed holds a record for every call of the run
C13_Witness ==
    /\ pc[1] = "idle" /\ left = 0
    /\ FailOnUnexpectedDiff /\ Diffs = ResDiffs
    /\ ~ret[1].err.nil /\ Contains(ret[1].err.msg, "unexpected diff")
    /\ Len(Diffed) = MaxCalls

---------------------------------------------------------------------------
(* One caller, every recording operation: which lists a call appends to *)

ListNames == {"Charts", "Releases", "Deleted", "Linted", "Templated", "Diffed"}

\* the caller's last call has returned without an error
Succeeded == cur[1].op # "none" /\ pc[1] = "idle" /\ ret[1].err.nil

(* C14 as stated: every family records into a list of its own: a successful  *)
(* TestRelease or ReleaseStatus call does not change Releases, the list of   *)
(* the synced releases, a successful SyncRelease changes Releases only, and  *)
(* DeleteRelease, Lint, TemplateRelease and DiffRelease change only Deleted, *)
(* Linted, Templated and Diffed.                                             *)
C14_OwnListPerFamily ==
    Succeeded =>
        /\ cur[1].op \in {"TestRelease", "ReleaseStatus"} => "Releases" \notin Range(wrote[1])
        /\ cur[1].op = "SyncRelease" => wrote[1] = <<"Releases">>
        /\ cur[1].op = "DeleteRelease" => wrote[1] = <<"Deleted">>
        /\ cur[1].op = "Lint" => wrote[1] = <<"Linted">>
        /\ cur[1].op = "TemplateRelease" => wrote[1] = <<"Templated">>
        /\ cur[1].op = "DiffRelease" => wrote[1] = <<"Diffed">>

\* the lists a successful call of operation op appends to, in order
Records(op) ==
    CASE op = "SyncRelease" -> <<"Releases", "Charts">>
      [] op \in {"ReleaseStatus", "TestRelease"} -> <<"Releases">>
      [] op = "DeleteRelease" -> <<"Deleted">>
      [] op = "Lint" -> <<"Linted">>
      [] op = "TemplateRelease" -> <<"Templated">>
      [] op = "DiffRelease" -> <<"Diffed">>
      [] op \in {"UpdateDeps", "BuildDeps"} -> <<"Charts">>

(* C14 amended: a successful call of DeleteRelease, Lint, TemplateRelease or *)
(* DiffRelease appends exactly one record {name, flags} to Deleted, Linted,  *)
(* Templated or Diffed and changes no other list.  There is no list of       *)
(* tested releases: a successful ReleaseStatus or TestRelease call appends   *)
(* its record to Releases, the list SyncRelease records into, and to no      *)
(* other list; a successful SyncRelease appends its record to Releases and   *)
(* then its chart to Charts, and changes no other list.                      *)
C14_ListsPerOperation ==
    [][/\ \A l \in ListNames :
            ListValue(l)' # ListValue(l) =>
                /\ ListValue(l)' = Append(ListValue(l),
                                          IF l = "Charts" THEN cur[1].chart
                                          ELSE Release(cur[1].name, cur[1].flags))
                /\ wrote'[1] = Append(wrote[1], l)
                /\ \A k \in ListNames \ {l} : ListValue(k)' = ListValue(k)
       /\ Succeeded' => wrote'[1] = Records(cur'[1].op)]_vars

\* SyncRelease has returned after a TestRelease or ReleaseStatus call: both
\* records are in Releases and Charts holds the chart of SyncRelease alone
C14_Witness ==
    /\ Succeeded /\ cur[1].op = "SyncRelease"
    /\ Len(Releases) = 2 /\ Charts = <<cur[1].chart>>
    /\ Releases[2] = Release(cur[1].name, cur[1].flags)

---------------------------------------------------------------------------
(* The mixed workload: the guarded lists a call appends to *)

Guarded == {"Releases", "Charts", "Diffed"}

(* C15 as stated: no call appends to two of the lock-guarded lists Releases, *)
(* Charts and Diffed.                                                        *)
C15_OneGuardedListPerCall ==
    \A p \in Procs : Cardinality(Range(wrote[p]) \cap Guarded) <= 1

(* C15 amended: every call other than SyncRelease appends to at most one of  *)
(* the lock-guarded lists Releases, Charts and Diffed.  A SyncRelease call   *)
(* appends to two of them, Releases and then Charts, one after the other:    *)
(* when it turns to Charts it holds no mutex, and a mutex it holds was       *)
(* taken for the append it is making.                                        *)
C15_GuardedListsPerCall ==
    \A p \in Procs :
        /\ cur[p].op # "SyncRelease" => Cardinality(Range(wrote[p]) \cap Guarded) <= 1
        /\ cur[p].op = "SyncRelease" => IsPrefix(wrote[p], <<"Releases", "Charts">>)
        /\ HeldBy(p) # {} => /\ pc[p] \in {"load", "store", "unlock"}
                             /\ HeldBy(p) = {mu[p]}

\* with two distinct mutexes supplied, a SyncRelease call has appended to
\* Releases and holds ChartsMutex for its append to Charts while the other
\* goroutine waits for ReleasesMutex
C15_Witness ==
    /\ ReleasesMutex # NIL /\ ChartsMutex # NIL /\ ReleasesMutex # ChartsMutex
    /\ \E p, q \in Callers :
          /\ cur[p].op = "SyncRelease" /\ wrote[p] = <<"Releases">>
          /\ tgt[p] = "Charts" /\ HeldBy(p) = {ChartsMutex}
          /\ cur[q].op = "SyncRelease" /\ pc[q] = "load" /\ HeldBy(q) = {ReleasesMutex}

---------------------------------------------------------------------------
(* DiffRelease calls by any of N goroutines, no mutex supplied *)

InitNoLock ==
    /\ InitLists
    /\ InitProcs
    /\ InitVersion
    /\ Lists = NilMap
    /\ Diffs \in {NilMap, MixDiffs}
    /\ FailOnUnexpectedDiff = TRUE
    /\ FailOnUnexpectedList = FALSE
    /\ UpdateDepsCallbacks = NilMap
    /\ ReleasesMutex = NIL /\ ChartsMutex = NIL /\ DiffMutex = NIL
    /\ left = NProcs

NextNoLock ==
    \E p \in Procs :
        \/ DiffRelease(p, MixName(p), MixChart(p), MixFlags)
        \/ Load(p) \/ Store(p)

SpecNoLock == InitNoLock /\ [][NextNoLock]_vars

\* the calls started so far
NoLockCalls == NProcs - left

(* C16: with no mutex supplied, when a single goroutine has made all the     *)
(* DiffRelease calls, one after the other, no record is lost: once the last  *)
(* call has returned, Diffed holds exactly one record per call made, each    *)
(* the record {name, flags} of the caller's calls.  That two concurrent      *)
(* callers can lose a record is the reachable state C16_Witness.             *)
C16_UnguardedAppends ==
    (AllReturned /\ SingleCaller) =>
        /\ Len(Diffed) = NoLockCalls
        /\ \A i \in DOMAIN Diffed :
              \E p \in CallersOf("DiffRelease") : Diffed[i] = Element(p, "Diffed")

\* two goroutines have each made one DiffRelease call, both calls have
\* returned, and Diffed holds the record of one of them only
C16_Witness ==
    /\ AllReturned
    /\ NoLockCalls = 2
    /\ \E p, q \in Procs : p # q /\ cur[p].op = "DiffRelease" /\ cur[q].op = "DiffRelease"
    /\ Len(Diffed) = 1

---------------------------------------------------------------------------
(* One caller, UpdateDeps alone, with and without registered callbacks *)

DepsCharts == {"nginx", "redis", "postgres", "bad-error-chart"}
\* callbacks for three of the charts: that of "redis" succeeds, the others fail
DepsCallbacks ==
    MakeMap([c \in DepsCharts \ {"postgres"} |->
                IF c = "redis" THEN NilError ELSE NewError("callback failed: " \o c)])

InitDeps ==
    /\ InitLists
    /\ InitProcs
    /\ InitVersion
    /\ Lists = NilMap
    /\ Diffs = NilMap
    /\ FailOnUnexpectedDiff = FALSE
    /\ FailOnUnexpectedList = FALSE
    /\ UpdateDepsCallbacks \in {NilMap, EmptyMap, DepsCallbacks}
    /\ ReleasesMutex = NIL /\ DiffMutex = NIL /\ ChartsMutex \in {NIL, "m1"}
    /\ left = MaxCalls

NextDeps ==
    \E p \in {1} :
        \/ \E chart \in DepsCharts : UpdateDeps(p, chart)
        \/ Load(p) \/ Store(p) \/ Callback(p)

SpecDeps == InitDeps /\ [][NextDeps]_vars

\* a callback is registered under exactly the string chart
Registered(chart) ==
    ~UpdateDepsCallbacks.nil /\ chart \in DOMAIN UpdateDepsCallbacks.m

\* one invocation, with the chart as argument, of the callback of every
\* chart of the sequence that has one
InvocationsFor(charts) ==
    LET sel == SelectSeq(charts, Registered)
    IN  [i \in 1..Len(sel) |-> <<sel[i], sel[i]>>]

(* C17: UpdateDeps on a chart without the sentinel first appends the chart   *)
(* to Charts and then, only if a callback is registered under exactly that   *)
(* chart, invokes that callback once with the chart as argument and returns  *)
(* its result verbatim; otherwise it returns nil and invokes nothing.  A     *)
(* callback registered under another chart is not invoked, and when the      *)
(* callback fails the chart stays in Charts.                                 *)
C17_UpdateDepsCallback ==
    [][/\ invoked' # invoked =>
            /\ Charts' = Charts
            /\ Charts # <<>> /\ Charts[Len(Charts)] = cur[1].chart
            /\ invoked' = Append(invoked, <<cur[1].chart, cur[1].chart>>)
       /\ (pc'[1] = "idle" /\ cur'[1].op = "UpdateDeps"
              /\ ~Contains(cur'[1].chart, Sentinel)) =>
            /\ Charts' # <<>> /\ Charts'[Len(Charts')] = cur'[1].chart
            /\ invoked' = InvocationsFor(Charts')
            /\ ret'[1].err = IF Registered(cur'[1].chart)
                             THEN UpdateDepsCallbacks.m[cur'[1].chart]
                             ELSE NilError]_vars

\* UpdateDeps("nginx") has returned the error of its callback after
\* UpdateDeps("postgres"), a chart without a callback: both charts are in
\* Charts and the one invocation is that of the callback of "nginx"
C17_Witness ==
    /\ cur[1].op = "UpdateDeps" /\ cur[1].chart = "nginx" /\ pc[1] = "idle"
    /\ ret[1].err = NewError("callback failed: nginx")
    /\ Charts = <<"postgres", "nginx">>
    /\ invoked = <<<<"nginx", "nginx">>>>

---------------------------------------------------------------------------
(* Three callers, one List or DiffRelease call each, flag sequences with    *)
(* equal and with different concatenations                                   *)

KeyCallers == {1, 2, 3}
KeyFlags == {<<"a", "bc">>, <<"ab", "c">>, <<"bc", "a">>, <<"abc">>}

InitKeys ==
    /\ InitLists
    /\ InitProcs
    /\ InitVersion
    /\ Lists = ResLists
    /\ Diffs = ResDiffs
    /\ FailOnUnexpectedDiff \in BOOLEAN
    /\ FailOnUnexpectedList \in BOOLEAN
    /\ UpdateDepsCallbacks = NilMap
    /\ ReleasesMutex = NIL /\ ChartsMutex = NIL /\ DiffMutex = NIL
    /\ left = NProcs

\* a goroutine that has made no call yet calls List or DiffRelease
KeyCall(p) ==
    /\ cur[p] = NoCall
    /\ \E flags \in KeyFlags :
          \/ \E filter \in ResFilters : List(p, filter, flags)
          \/ \E chart \in ResCharts : DiffRelease(p, "app", chart, flags)

NextKeys ==
    \E p \in KeyCallers : KeyCall(p) \/ Load(p) \/ Store(p)

SpecKeys == InitKeys /\ [][NextKeys]_vars

\* the delimiter-free concatenation of a sequence of flags, in their order
RECURSIVE Concatenation(_)
Concatenation(flags) ==
    IF flags = <<>> THEN ""
    ELSE Concatenation(SubSeq(flags, 1, Len(flags) - 1)) \o flags[Len(flags)]

\* goroutine p has returned from a call of operation op
Answered(p, op) == cur[p].op = op /\ pc[p] = "idle"

\* the registered keys that the call of p equals field by field
ListHits(p) ==
    {k \in DOMAIN Lists.m :
        k.Filter = cur[p].name /\ k.Flags = Concatenation(cur[p].flags)}
DiffHits(p) ==
    {k \in DOMAIN Diffs.m :
        /\ k.Name = cur[p].name /\ k.Chart = cur[p].chart
        /\ k.Flags = Concatenation(cur[p].flags)}

(* C18: a List call hits a registered expectation if and only if its filter  *)
(* equals the registered filter and the delimiter-free, order-significant    *)
(* concatenation of its flags equals the registered flags string, and a      *)
(* DiffRelease call if and only if its name and chart equal the registered   *)
(* ones and the concatenation of its flags equals the registered flags       *)
(* string: a hit returns the registered response, a miss the strict-mode     *)
(* failure or the lenient default.  Hence two calls that differ only in flag *)
(* sequences of the same concatenation get the same response.                *)
C18_KeyIsConcatenation ==
    /\ \A p \in KeyCallers : Answered(p, "List") =>
          IF ListHits(p) # {}
          THEN \E k \in ListHits(p) : ret[p].val = Lists.m[k] /\ ret[p].err.nil
          ELSE /\ ret[p].val = ""
               /\ ret[p].err.nil <=> ~FailOnUnexpectedList
    /\ \A p \in KeyCallers : Answered(p, "DiffRelease") =>
          IF DiffHits(p) # {}
          THEN \E k \in DiffHits(p) : ret[p].err = Diffs.m[k]
          ELSE IF FailOnUnexpectedDiff
          THEN ~ret[p].err.nil /\ Contains(ret[p].err.msg, "unexpected diff")
          ELSE ret[p].err.nil
    /\ \A p, q \in KeyCallers, op \in {"List", "DiffRelease"} :
          (/\ Answered(p, op) /\ Answered(q, op)
           /\ cur[p].name = cur[q].name /\ cur[p].chart = cur[q].chart
           /\ Concatenation(cur[p].flags) = Concatenation(cur[q].flags)) =>
              /\ ret[p].val = ret[q].val
              /\ ret[p].err.nil = ret[q].err.nil
              /\ op = "DiffRelease" => ret[p].err = ret[q].err

\* in strict mode, List with flags ["a","bc"] and List with flags ["ab","c"]
\* have both returned the response registered under "abc", and List with the
\* reordered flags ["bc","a"] has failed
C18_Witness ==
    /\ FailOnUnexpectedList
    /\ \E p, q, r \in KeyCallers :
          /\ Answered(p, "List") /\ Answered(q, "List") /\ Answered(r, "List")
          /\ cur[p].name = "^db$" /\ cur[q].name = "^db$" /\ cur[r].name = "^db$"
          /\ cur[p].flags = <<"a", "bc">> /\ ret[p].val = "db 3 deployed"
          /\ cur[q].flags = <<"ab", "c">> /\ ret[q].val = "db 3 deployed"
          /\ cur[r].flags = <<"bc", "a">> /\ ~ret[r].err.nil

===========================================================================
